---- MODULE Spec2Model ----
(***************************************************************************)
(* Rock-Paper-Scissors Plus, AI judge (src/ai-judge-rps-plus/src/main.py). *)
(* The model covers the local judge mock_judge_response, play_round with   *)
(* its three ways of obtaining a decision (mock mode, the external         *)
(* backend, the fallback when the backend call raises) and the game loop   *)
(* of main with the 3-round tally and reset.                               *)
(*                                                                         *)
(* Python strings that the code searches (the player's line, the keyword   *)
(* lists) are sequences of one-character strings; Python's None is the     *)
(* string "None" wherever a move, a winner or a status may be None.        *)
(***************************************************************************)
EXTENDS Integers, Sequences, FiniteSets, TLC

VARIABLES pc, client, game_state, player_input, ai_move, game_context,
          judge_decision, match_result, backend

vars == <<pc, client, game_state, player_input, ai_move, game_context,
          judge_decision, match_result, backend>>

None == "None"

(***************************************************************************)
(* Strings.                                                                *)
(***************************************************************************)
\* str.lower() on the letters the inputs use; every other character is
\* its own lower case.
LowerChar(c) ==
    CASE c = "B" -> "b" [] c = "E" -> "e" [] c = "I" -> "i"
      [] c = "K" -> "k" [] c = "M" -> "m" [] c = "N" -> "n"
      [] c = "O" -> "o" [] c = "P" -> "p" [] c = "Q" -> "q"
      [] c = "R" -> "r" [] c = "S" -> "s" [] c = "T" -> "t"
      [] c = "U" -> "u" [] c = "X" -> "x"
      [] OTHER -> c

Lower(s) == [i \in 1..Len(s) |-> LowerChar(s[i])]

\* Python's "k in s" for strings: k occurs as a contiguous substring of s.
Contains(k, s) ==
    \E i \in 1..(Len(s) - Len(k) + 1) : SubSeq(s, i, i + Len(k) - 1) = k

RECURSIVE LStrip(_)
LStrip(s) == IF s # <<>> /\ Head(s) = " " THEN LStrip(Tail(s)) ELSE s

RECURSIVE RStrip(_)
RStrip(s) ==
    IF s # <<>> /\ s[Len(s)] = " " THEN RStrip(SubSeq(s, 1, Len(s) - 1)) ELSE s

\* str.strip() (blanks are the only whitespace of the inputs)
Strip(s) == RStrip(LStrip(s))

(***************************************************************************)
(* mock_judge_response: the keyword tables.                                *)
(***************************************************************************)
\* dict order of move_map
MoveOrder == <<"rock", "paper", "scissors", "bomb">>

Moves == {"rock", "paper", "scissors", "bomb"}

move_map ==
    [rock |-> << <<"r","o","c","k">>, <<"r","o","k">>,
                 <<"s","t","o","n","e">>, <<"b","o","u","l","d","e","r">>,
                 <<"f","i","s","t">> >>,
     paper |-> << <<"p","a","p","e","r">>, <<"p","p","r">>, <<"p","a","p">>,
                  <<"s","h","e","e","t">>,
                  <<"d","o","c","u","m","e","n","t">> >>,
     scissors |-> << <<"s","c","i","s","s","o","r","s">>,
                     <<"s","c","i","s","s","o","r">>, <<"s","c","i","z">>,
                     <<"s","n","i","p">>, <<"s","h","e","a","r","s">> >>,
     bomb |-> << <<"b","o","m","b">>, <<"b","o","o","m">>,
                 <<"n","u","k","e">>, <<"d","y","n","a","m","i","t","e">>,
                 <<"c","4">>, <<"e","x","p","l","o","s","i","o","n">> >>]

refuses ==
    << <<"p","a","s","s">>, <<"s","k","i","p">>,
       <<"i"," ","d","o","n","'","t"," ","w","a","n","t">>,
       <<"d","o","n","t"," ","w","a","n","t">>,
       <<"n","o","t"," ","p","l","a","y">>, <<"n","o","p","e">> >>

\* any(k in raw_l for k in keys)
AnyKeyIn(keys, raw_l) == \E j \in 1..Len(keys) : Contains(keys[j], raw_l)

\* the two nested for loops with their breaks: the first category of
\* move_map, in dict order, one of whose keys occurs in raw_l
RECURSIVE FirstMatch(_, _)
FirstMatch(i, raw_l) ==
    IF i > Len(MoveOrder) THEN None
    ELSE IF AnyKeyIn(move_map[MoveOrder[i]], raw_l) THEN MoveOrder[i]
    ELSE FirstMatch(i + 1, raw_l)

\* any(r in raw_l for r in refuses)
Refused(raw_l) == AnyKeyIn(refuses, raw_l)

\* variant: the keywords are searched in the raw text, not its lower case
MoveUnderstood_NoLower(raw) ==
    IF Refused(raw) THEN None ELSE FirstMatch(1, raw)

\* variant: a refusal counts only when no move keyword was found
MoveUnderstood_MoveFirst(raw) ==
    LET raw_l == Lower(raw)
    IN  IF FirstMatch(1, raw_l) # None THEN FirstMatch(1, raw_l) ELSE None

\* move_understood after the keyword loops and the refusal override
MoveUnderstood(raw) ==
    LET raw_l == Lower(raw)
    IN  IF Refused(raw_l) THEN None ELSE FirstMatch(1, raw_l)

(***************************************************************************)
(* mock_judge_response: validation, game logic, state update, record.      *)
(***************************************************************************)
Statuses == {"VALID", "INVALID", "UNCLEAR"}

\* variant: a spent bomb is reported as an unclear move
ValidationStatus_SpentIsUnclear(move_understood, p2_bomb_used) ==
    IF move_understood = None THEN "UNCLEAR"
    ELSE IF move_understood = "bomb" /\ p2_bomb_used THEN "UNCLEAR"
    ELSE "VALID"

\* the if / elif / else on move_understood and the context's
\* player2_bomb_used
ValidationStatus(move_understood, p2_bomb_used) ==
    IF move_understood = None THEN "UNCLEAR"
    ELSE IF move_understood = "bomb" /\ p2_bomb_used THEN "INVALID"
    ELSE "VALID"

ValidationReason(move_understood, p2_bomb_used) ==
    IF move_understood = None THEN "Could not determine move from input."
    ELSE IF move_understood = "bomb" /\ p2_bomb_used
         THEN "Bomb already used by player 2."
    ELSE "Move recognized and constraints satisfied."

\* variant: the cycle runs the other way
Beats_Reversed(m) ==
    CASE m = "rock" -> "paper"
      [] m = "scissors" -> "rock"
      [] m = "paper" -> "scissors"
      [] OTHER -> None

\* variant: the table has no entry for paper
Beats_NoPaper(m) ==
    CASE m = "rock" -> "scissors"
      [] m = "scissors" -> "paper"
      [] OTHER -> None

\* beats.get(m)
Beats(m) ==
    CASE m = "rock" -> "scissors"
      [] m = "scissors" -> "paper"
      [] m = "paper" -> "rock"
      [] OTHER -> None

\* variant: the bomb branches are missing
LogicBranch_NoBomb(status, p1, p2) ==
    IF status # "VALID" THEN "none"
    ELSE IF p1 = p2 THEN "same"
    ELSE IF Beats(p1) = p2 THEN "p1_beats"
    ELSE IF Beats(p2) = p1 THEN "p2_beats"
    ELSE "unexpected"

\* the branch of the game logic taken for (p1, p2), in the order of the
\* if / elif chain; "none" when the status is not VALID
LogicBranch(status, p1, p2) ==
    IF status # "VALID" THEN "none"
    ELSE IF p1 = p2 THEN "same"
    ELSE IF p1 = "bomb" /\ p2 = "bomb" THEN "both_bomb"
    ELSE IF p1 = "bomb" THEN "p1_bomb"
    ELSE IF p2 = "bomb" THEN "p2_bomb"
    ELSE IF Beats(p1) = p2 THEN "p1_beats"
    ELSE IF Beats(p2) = p1 THEN "p2_beats"
    ELSE "unexpected"

RoundWinner(status, p1, p2) ==
    LET b == LogicBranch(status, p1, p2)
    IN  CASE b = "none" -> None
          [] b \in {"same", "both_bomb", "unexpected"} -> "draw"
          [] b \in {"p1_bomb", "p1_beats"} -> "player1"
          [] b \in {"p2_bomb", "p2_beats"} -> "player2"

RoundExplanation(status, p1, p2) ==
    LET b == LogicBranch(status, p1, p2)
    IN  CASE b = "none" -> "No winner determined."
          [] b = "same" -> "Both players played " \o p1 \o ". It's a draw."
          [] b = "both_bomb" -> "Both players used bomb. Draw."
          [] b = "p1_bomb" -> "Player1's bomb beats player2's move."
          [] b = "p2_bomb" -> "Player2's bomb beats player1's move."
          [] b = "p1_beats" -> p1 \o " beats " \o p2 \o "."
          [] b = "p2_beats" -> p2 \o " beats " \o p1 \o "."
          [] b = "unexpected" -> "No clear winner (unexpected input)."

\* variant: the flag of player 1 is inferred from the bot's move
P1Bomb_Inferred(ctx) == ctx.player1_bomb_used \/ ctx.player1_move = "bomb"

\* p1_bomb: the context's flag, copied
P1Bomb(ctx) == ctx.player1_bomb_used

\* variant: the flag of player 2 is copied and never set
P2Bomb_NeverSet(ctx, status, p2) == ctx.player2_bomb_used

\* variant: a bomb of either player sets the flag of player 2
P2Bomb_FromEitherMove(ctx, status, p2) ==
    IF status = "VALID" /\ (p2 = "bomb" \/ ctx.player1_move = "bomb")
    THEN TRUE ELSE ctx.player2_bomb_used

\* p2_bomb: the context's flag, set when a valid bomb was played
P2Bomb(ctx, status, p2) ==
    IF status = "VALID" /\ p2 = "bomb" THEN TRUE ELSE ctx.player2_bomb_used

\* variant: only an unclear move is not accepted
MoveAccepted_NotUnclear(status) == status # "UNCLEAR"

MoveAccepted(status) == status = "VALID"

FinalAction(status) ==
    IF status = "VALID" THEN "PLAYED"
    ELSE IF status = "INVALID" THEN "REJECTED" ELSE "UNCLEAR_MOVE"

BombsLeft(used) == IF used THEN "0" ELSE "1"

\* the response dict; ctx is game_context
mock_judge_response(ctx) ==
    LET raw    == ctx.player2_move
        p2     == MoveUnderstood(raw)
        status == ValidationStatus(p2, ctx.player2_bomb_used)
        reason == ValidationReason(p2, ctx.player2_bomb_used)
        p1     == ctx.player1_move
        p1b    == P1Bomb(ctx)
        p2b    == P2Bomb(ctx, status, p2)
    IN  [round_number |-> ctx.round_number,
         player2_raw_input |-> raw,
         intent_understanding |->
            [move_understood |-> p2,
             reasoning |-> "Matched keywords heuristically in mock mode."],
         validation |-> [status |-> status, reason |-> reason],
         game_logic |->
            [player1_move |-> p1,
             player2_move |-> p2,
             round_winner |-> RoundWinner(status, p1, p2),
             round_explanation |-> RoundExplanation(status, p1, p2)],
         state_update |->
            [player1_bomb_used |-> p1b,
             player2_bomb_used |-> p2b,
             bombs_remaining |->
                [player1 |-> BombsLeft(p1b), player2 |-> BombsLeft(p2b)]],
         final_result |->
            [move_accepted |-> MoveAccepted(status),
             action |-> FinalAction(status),
             player_message |->
                IF status = "VALID" THEN "(MOCK) Move accepted."
                ELSE "(MOCK) " \o reason]]

(***************************************************************************)
(* initialize_game and play_round.                                         *)
(***************************************************************************)
initialize_game ==
    [round_number |-> 1,
     player1_bomb_used |-> FALSE,
     player2_bomb_used |-> FALSE,
     rounds |-> <<>>]

\* the game_context dict play_round builds from the state and its arguments
GameContext(gs, player2_input, player1_move) ==
    [round_number |-> gs.round_number,
     player1_move |-> player1_move,
     player2_move |-> player2_input,
     player1_bomb_used |-> gs.player1_bomb_used,
     player2_bomb_used |-> gs.player2_bomb_used]

\* variant: only an accepted decision is stored in the history
CommitDecision_AcceptedOnly(gs, jd) ==
    IF jd.final_result.move_accepted
    THEN [gs EXCEPT !.player1_bomb_used = jd.state_update.player1_bomb_used,
                    !.player2_bomb_used = jd.state_update.player2_bomb_used,
                    !.rounds = Append(@, jd)]
    ELSE gs

\* "Update game state based on judge's decision" and "Store round result"
CommitDecision(gs, jd) ==
    [gs EXCEPT
       !.player1_bomb_used =
           IF jd.final_result.move_accepted
           THEN jd.state_update.player1_bomb_used ELSE @,
       !.player2_bomb_used =
           IF jd.final_result.move_accepted
           THEN jd.state_update.player2_bomb_used ELSE @,
       !.rounds = Append(@, jd)]

\* The backend's response text, by its parts: FENCE is the three
\* backquotes, LANG the word json right after them, WS white space, OBJ the
\* text of one JSON object, JUNK any other text.
StartsWith(text, prefix) ==
    Len(text) >= Len(prefix) /\ SubSeq(text, 1, Len(prefix)) = prefix

EndsWith(text, suffix) ==
    /\ Len(text) >= Len(suffix)
    /\ SubSeq(text, Len(text) - Len(suffix) + 1, Len(text)) = suffix

Drop(text, n) == SubSeq(text, n + 1, Len(text))

\* the three ifs that remove the code fence markers, one after the other
StripFences(text) ==
    LET t1 == IF StartsWith(text, <<"FENCE", "LANG">>) THEN Drop(text, 2)
              ELSE text
        t2 == IF StartsWith(t1, <<"FENCE">>) THEN Drop(t1, 1) ELSE t1
        t3 == IF EndsWith(t2, <<"FENCE">>) THEN SubSeq(t2, 1, Len(t2) - 1)
              ELSE t2
    IN  t3

RECURSIVE LStripWS(_)
LStripWS(t) == IF t # <<>> /\ Head(t) = "WS" THEN LStripWS(Tail(t)) ELSE t

RECURSIVE RStripWS(_)
RStripWS(t) ==
    IF t # <<>> /\ t[Len(t)] = "WS" THEN RStripWS(SubSeq(t, 1, Len(t) - 1))
    ELSE t

\* json.loads(response_text.strip()) returns: the text is one JSON object
JsonLoads(text) == RStripWS(LStripWS(StripFences(text))) = <<"OBJ">>

(***************************************************************************)
(* The tally of main.                                                      *)
(***************************************************************************)
MatchLength == 3

\* game_state["rounds"][-3:]
LastThree(rounds) ==
    IF Len(rounds) <= 3 THEN rounds
    ELSE SubSeq(rounds, Len(rounds) - 2, Len(rounds))

CountWinner(rds, who) ==
    Cardinality({i \in 1..Len(rds) : rds[i].game_logic.round_winner = who})

UserWins(rds) == CountWinner(rds, "player2")

BotWins(rds) == CountWinner(rds, "player1")

\* variant: only a round_winner of "draw" counts as a draw
Draws_OnlyDraw(rds) ==
    Cardinality({i \in 1..Len(rds) : rds[i].game_logic.round_winner = "draw"})

Draws(rds) ==
    Cardinality({i \in 1..Len(rds) :
                   rds[i].game_logic.round_winner \notin {"player1", "player2"}})

\* variant: equal counts go to the user
Final_TieToUser(user_wins, bot_wins) ==
    IF user_wins >= bot_wins THEN "User wins"
    ELSE IF bot_wins > user_wins THEN "Bot wins"
    ELSE "Draw"

Final(user_wins, bot_wins) ==
    IF user_wins > bot_wins THEN "User wins"
    ELSE IF bot_wins > user_wins THEN "Bot wins"
    ELSE "Draw"

Tally(rounds) ==
    LET last_three == LastThree(rounds)
    IN  [user_wins |-> UserWins(last_three),
         bot_wins |-> BotWins(last_three),
         draws |-> Draws(last_three),
         final |-> Final(UserWins(last_three), BotWins(last_three))]

(***************************************************************************)
(* Inputs.                                                                 *)
(***************************************************************************)
\* Lines typed at the "Your move: " prompt.
Lines ==
    { <<"r","o","c","k">>,
      <<" ","N","U","K","E"," ">>,
      <<"p","a","s","s"," ","b","o","m","b">>,
      <<" ">>,
      <<"Q">> }

QuitWords == { <<"q","u","i","t">>, <<"e","x","i","t">>, <<"q">> }

\* random.choice(["rock","paper","scissors","bomb"])
AiMoves == {"rock", "paper", "scissors", "bomb"}

\* Response texts of the backend.
ResponseTexts ==
    { <<"OBJ">>,
      <<"FENCE", "LANG", "WS", "OBJ", "WS", "FENCE">>,
      <<"FENCE", "WS", "OBJ", "FENCE", "WS">>,
      <<"WS", "FENCE", "LANG", "OBJ", "FENCE">>,
      <<"JUNK">>,
      <<>> }

\* Decisions the backend's JSON can carry: <<status, player 1's move,
\* player 2's move, round winner, move_accepted, player1_bomb_used,
\* player2_bomb_used>>.  The backend is free, so the sample has replies that
\* break the rules.
BackendReplies ==
    { <<"VALID", "scissors", "rock", "player2", TRUE, FALSE, FALSE>>,
      <<"VALID", "bomb", "bomb", "draw", TRUE, TRUE, TRUE>>,
      <<"INVALID", None, None, None, TRUE, FALSE, TRUE>>,
      <<"UNCLEAR", None, None, None, FALSE, TRUE, FALSE>> }

\* the dict json.loads returns for reply r in round round_number
BackendDecision(round_number, r) ==
    [round_number |-> round_number,
     player2_raw_input |-> <<>>,
     intent_understanding |->
        [move_understood |-> r[3], reasoning |-> "backend"],
     validation |-> [status |-> r[1], reason |-> "backend"],
     game_logic |->
        [player1_move |-> r[2],
         player2_move |-> r[3],
         round_winner |-> r[4],
         round_explanation |-> "backend"],
     state_update |->
        [player1_bomb_used |-> r[6],
         player2_bomb_used |-> r[7],
         bombs_remaining |->
            [player1 |-> BombsLeft(r[6]), player2 |-> BombsLeft(r[7])]],
     final_result |->
        [move_accepted |-> r[5],
         action |-> FinalAction(r[1]),
         player_message |-> "backend"]]

\* Words of the raw inputs the judge is applied to on its own.
Vocabulary ==
    { <<"r","o","c","k">>, <<"P","a","p","e","r">>, <<"s","n","i","p">>,
      <<"b","o","m","b">>, <<"N","U","K","E">>, <<"p","a","s","s">>,
      <<"n","o","p","e">>, <<"h","i">> }

MaxWords == 2

RECURSIVE Join(_)
Join(ws) ==
    IF ws = <<>> THEN <<>>
    ELSE IF Len(ws) = 1 THEN ws[1]
    ELSE ws[1] \o <<" ">> \o Join(Tail(ws))

Sentences ==
    UNION { {Join(ws) : ws \in [1..n -> Vocabulary]} : n \in 0..MaxWords }

(***************************************************************************)
(* State.                                                                  *)
(***************************************************************************)
\* values of the locals before they are first assigned
NoContext ==
    [round_number |-> 0, player1_move |-> None, player2_move |-> <<>>,
     player1_bomb_used |-> FALSE, player2_bomb_used |-> FALSE]

NoDecision ==
    [round_number |-> 0,
     player2_raw_input |-> <<>>,
     intent_understanding |-> [move_understood |-> None, reasoning |-> None],
     validation |-> [status |-> None, reason |-> None],
     game_logic |->
        [player1_move |-> None, player2_move |-> None,
         round_winner |-> None, round_explanation |-> None],
     state_update |->
        [player1_bomb_used |-> FALSE, player2_bomb_used |-> FALSE,
         bombs_remaining |-> [player1 |-> None, player2 |-> None]],
     final_result |->
        [move_accepted |-> FALSE, action |-> None, player_message |-> None]]

\* What client.generate_text did in the last play_round: call is "none"
\* (client is None, or no round yet), "raised" or "returned"; text is the
\* response text when it returned.
NotCalled == [call |-> "none", text |-> <<>>]

Raised == [call |-> "raised", text |-> <<>>]

Returned(text) == [call |-> "returned", text |-> text]

NoResult == [user_wins |-> 0, bot_wins |-> 0, draws |-> 0, final |-> None]

\* main up to the first prompt; client is None in MOCK mode
Init ==
    /\ pc = "prompt"
    /\ client \in {None, "gemini"}
    /\ game_state = initialize_game
    /\ player_input = <<>>
    /\ ai_move = None
    /\ game_context = NoContext
    /\ judge_decision = NoDecision
    /\ match_result = NoResult
    /\ backend = NotCalled

(***************************************************************************)
(* The game loop of main.  One iteration reads a line and either leaves,   *)
(* prompts again, or plays a round (pc = "played" when play_round has      *)
(* returned) and then moves to the next round.                             *)
(***************************************************************************)
IsQuit(line) == Lower(Strip(line)) \in QuitWords

IsEmpty(line) == Strip(line) = <<>>

Quit ==
    /\ pc = "prompt"
    /\ \E line \in Lines :
          /\ IsQuit(line)
          /\ player_input' = Strip(line)
    /\ pc' = "done"
    /\ UNCHANGED <<client, game_state, ai_move, game_context, judge_decision,
                   match_result, backend>>

\* variant: an empty line uses up a round
EmptyLine_CountsRound ==
    /\ pc = "prompt"
    /\ \E line \in Lines :
          /\ ~IsQuit(line)
          /\ IsEmpty(line)
          /\ player_input' = Strip(line)
    /\ game_state' = [game_state EXCEPT !.round_number = @ + 1]
    /\ UNCHANGED <<pc, client, ai_move, game_context, judge_decision,
                   match_result, backend>>

EmptyLine ==
    /\ pc = "prompt"
    /\ \E line \in Lines :
          /\ ~IsQuit(line)
          /\ IsEmpty(line)
          /\ player_input' = Strip(line)
    /\ UNCHANGED <<pc, client, game_state, ai_move, game_context,
                   judge_decision, match_result, backend>>

\* a line that reaches play_round, with the bot's move
ReadMove(line, mv) ==
    /\ ~IsQuit(line)
    /\ ~IsEmpty(line)
    /\ player_input' = Strip(line)
    /\ ai_move' = mv
    /\ game_context' = GameContext(game_state, Strip(line), mv)

\* play_round returns jd
Played(jd) ==
    /\ judge_decision' = jd
    /\ game_state' = CommitDecision(game_state, jd)
    /\ pc' = "played"
    /\ UNCHANGED <<client, match_result>>

\* client is None
RoundMock ==
    /\ pc = "prompt"
    /\ client = None
    /\ backend' = NotCalled
    /\ \E line \in Lines, mv \in AiMoves :
          /\ ReadMove(line, mv)
          /\ Played(mock_judge_response(
                       GameContext(game_state, Strip(line), mv)))

\* variant: the failure of the backend call leaves play_round and main
RoundFallback_Propagates ==
    /\ pc = "prompt"
    /\ client # None
    /\ backend' = Raised
    /\ \E line \in Lines, mv \in AiMoves :
          /\ ReadMove(line, mv)
          /\ pc' = "crashed"
          /\ UNCHANGED <<client, game_state, judge_decision, match_result>>

\* the backend call raises: except branch
RoundFallback ==
    /\ pc = "prompt"
    /\ client # None
    /\ backend' = Raised
    /\ \E line \in Lines, mv \in AiMoves :
          /\ ReadMove(line, mv)
          /\ Played(mock_judge_response(
                       GameContext(game_state, Strip(line), mv)))

\* the backend call returns a text that json.loads accepts
RoundBackend ==
    /\ pc = "prompt"
    /\ client # None
    /\ \E text \in ResponseTexts :
          /\ JsonLoads(text)
          /\ backend' = Returned(text)
          /\ \E line \in Lines, mv \in AiMoves, r \in BackendReplies :
                /\ ReadMove(line, mv)
                /\ Played(BackendDecision(game_state.round_number, r))

\* variant: a text json.loads rejects is handled like a failed call
RoundParseError_FallsBack ==
    /\ pc = "prompt"
    /\ client # None
    /\ \E text \in ResponseTexts :
          /\ ~JsonLoads(text)
          /\ backend' = Returned(text)
          /\ \E line \in Lines, mv \in AiMoves :
                /\ ReadMove(line, mv)
                /\ Played(mock_judge_response(
                             GameContext(game_state, Strip(line), mv)))

\* the backend call returns a text on which json.loads raises: the
\* exception leaves play_round and main
RoundParseError ==
    /\ pc = "prompt"
    /\ client # None
    /\ \E text \in ResponseTexts :
          /\ ~JsonLoads(text)
          /\ backend' = Returned(text)
          /\ \E line \in Lines, mv \in AiMoves :
                /\ ReadMove(line, mv)
                /\ pc' = "crashed"
                /\ UNCHANGED <<client, game_state, judge_decision,
                               match_result>>

\* "Move to next round"; after every 3 rounds the tally of the last three
\* records, printed as the final result
NextRound ==
    /\ pc = "played"
    /\ game_state' = [game_state EXCEPT !.round_number = @ + 1]
    /\ IF Len(game_state.rounds) % MatchLength = 0
       THEN /\ match_result' = Tally(game_state.rounds)
            /\ pc' = "tallied"
       ELSE /\ match_result' = match_result
            /\ pc' = "prompt"
    /\ UNCHANGED <<client, player_input, ai_move, game_context,
                   judge_decision, backend>>

\* variant: the reset keeps the bomb flags of the finished match
ResetMatch_KeepFlags ==
    /\ pc = "tallied"
    /\ game_state' = [game_state EXCEPT !.round_number = 1, !.rounds = <<>>]
    /\ match_result' = NoResult
    /\ pc' = "prompt"
    /\ UNCHANGED <<client, player_input, ai_move, game_context,
                   judge_decision, backend>>

\* "Reset game state to start another 3-round match".  The counters of the
\* tally are not read after the print; the model holds them only while
\* pc = "tallied".
ResetMatch ==
    /\ pc = "tallied"
    /\ game_state' = initialize_game
    /\ match_result' = NoResult
    /\ pc' = "prompt"
    /\ UNCHANGED <<client, player_input, ai_move, game_context,
                   judge_decision, backend>>

Next ==
    \/ Quit
    \/ EmptyLine
    \/ RoundMock
    \/ RoundFallback
    \/ RoundBackend
    \/ RoundParseError
    \/ NextRound
    \/ ResetMatch

Spec == Init /\ [][Next]_vars

\* MOCK mode: client is None for the whole run, so every round is
\* adjudicated by mock_judge_response
MockInit == Init /\ client = None

MockNext ==
    \/ Quit
    \/ EmptyLine
    \/ RoundMock
    \/ NextRound
    \/ ResetMatch

MockSpec == MockInit /\ [][MockNext]_vars

(***************************************************************************)
(* The judge on its own: mock_judge_response applied to every context of   *)
(* a bounded set.                                                          *)
(***************************************************************************)
Contexts ==
    [round_number : 1..MatchLength,
     player1_move : AiMoves,
     player2_move : Sentences,
     player1_bomb_used : BOOLEAN,
     player2_bomb_used : BOOLEAN]

JudgeInit ==
    /\ pc = "judge"
    /\ client = None
    /\ game_state = initialize_game
    /\ player_input = <<>>
    /\ ai_move = None
    /\ game_context \in Contexts
    /\ judge_decision = NoDecision
    /\ match_result = NoResult
    /\ backend = NotCalled

JudgeCall ==
    /\ pc = "judge"
    /\ judge_decision' = mock_judge_response(game_context)
    /\ pc' = "judged"
    /\ UNCHANGED <<client, game_state, player_input, ai_move, game_context,
                   match_result, backend>>

JudgeNext == JudgeCall

JudgeSpec == JudgeInit /\ [][JudgeNext]_vars

TypeOK ==
    /\ pc \in {"prompt", "played", "tallied", "done", "crashed", "judge",
              "judged"}
    /\ game_state.round_number \in 1..(MatchLength + 1)
    /\ Len(game_state.rounds) <= MatchLength

(***************************************************************************)
(* Properties.                                                             *)
(***************************************************************************)
Rounds == game_state.rounds

\* record rec accepted a bomb of player 2
ValidBomb2(rec) ==
    /\ rec.validation.status = "VALID"
    /\ rec.intent_understanding.move_understood = "bomb"

\* record rec accepted a bomb of player 1
ValidBomb1(rec) ==
    /\ rec.validation.status = "VALID"
    /\ rec.game_logic.player1_move = "bomb"

\* play_round has just returned a record of the internal resolver (MOCK
\* mode or the fallback) for the context it built
InternalRound ==
    /\ pc = "played"
    /\ judge_decision = mock_judge_response(game_context)

RPS == {"rock", "paper", "scissors"}

\* C1: in MOCK mode the history of a match holds at most one record with
\* status VALID and player 2's resolved move bomb, and every record after
\* such a record whose resolved move is bomb has status INVALID.
C1_Player2BombOncePerMatch ==
    /\ Cardinality({i \in DOMAIN Rounds : ValidBomb2(Rounds[i])}) <= 1
    /\ \A i, j \in DOMAIN Rounds :
          (/\ i < j
           /\ ValidBomb2(Rounds[i])
           /\ Rounds[j].intent_understanding.move_understood = "bomb")
          => Rounds[j].validation.status = "INVALID"

\* a second bomb of player 2 was rejected after an accepted one
C1_Witness ==
    \E i, j \in DOMAIN Rounds :
       /\ i < j
       /\ ValidBomb2(Rounds[i])
       /\ Rounds[j].intent_understanding.move_understood = "bomb"
       /\ Rounds[j].validation.status = "INVALID"

C3_FlagsMonotonic ==
    [][ ((game_state.player1_bomb_used /\ ~game_state'.player1_bomb_used)
         \/ (game_state.player2_bomb_used /\ ~game_state'.player2_bomb_used))
        => (pc = "tallied" /\ pc' = "prompt") ]_vars

\* C4: the tally and the reset happen exactly when the history holds 3
\* records, and the reset leaves the fresh game state: both flags false,
\* round_number 1, empty history.
C4_ResetAfterThreeRounds ==
    /\ [](pc = "tallied" => Len(Rounds) = MatchLength)
    /\ [](pc = "prompt" => Len(Rounds) < MatchLength)
    /\ [][ /\ (pc = "played" /\ Len(Rounds) = MatchLength)
              => pc' = "tallied"
           /\ (pc = "played" /\ Len(Rounds) < MatchLength)
              => (pc' = "prompt" /\ Rounds' = Rounds)
           /\ pc = "tallied"
              => /\ pc' = "prompt"
                 /\ ~game_state'.player1_bomb_used
                 /\ ~game_state'.player2_bomb_used
                 /\ game_state'.round_number = 1
                 /\ game_state'.rounds = <<>>
           /\ (Rounds # <<>> /\ Rounds' = <<>>) => pc = "tallied" ]_vars

\* a match that ended with both flags set has been reset
C4_Witness ==
    /\ pc = "prompt"
    /\ game_state = initialize_game
    /\ judge_decision.round_number = MatchLength
    /\ judge_decision.final_result.move_accepted
    /\ judge_decision.state_update.player1_bomb_used
    /\ judge_decision.state_update.player2_bomb_used

\* C5: the history of a match holds at most one record with status VALID
\* and player 1's move bomb.
C5_Player1BombOncePerMatch ==
    Cardinality({i \in DOMAIN Rounds : ValidBomb1(Rounds[i])}) <= 1

\* C6: the record of mock_judge_response has status UNCLEAR iff the
\* resolved move is None, INVALID iff the resolved move is bomb and the
\* context's player2_bomb_used is true, and VALID in every other case.
C6_ValidationThreeWay ==
    pc = "judged" =>
       LET mu == judge_decision.intent_understanding.move_understood
           st == judge_decision.validation.status
           used == game_context.player2_bomb_used
       IN  /\ mu \in Moves \cup {None}
           /\ st \in Statuses
           /\ (st = "UNCLEAR") = (mu = None)
           /\ (st = "INVALID") = (mu = "bomb" /\ used)
           /\ (st = "VALID") = (mu # None /\ ~(mu = "bomb" /\ used))

\* a spent bomb was judged
C6_Witness ==
    /\ pc = "judged"
    /\ judge_decision.intent_understanding.move_understood = "bomb"
    /\ game_context.player2_bomb_used
    /\ judge_decision.validation.status = "INVALID"

\* C7: in a VALID record, bomb against rock, paper or scissors wins for
\* the side that played the bomb, and bomb against bomb is a draw.
C7_BombDominance ==
    (pc = "judged" /\ judge_decision.validation.status = "VALID") =>
       LET p1 == judge_decision.game_logic.player1_move
           p2 == judge_decision.game_logic.player2_move
           rw == judge_decision.game_logic.round_winner
       IN  /\ (p1 = "bomb" /\ p2 \in RPS) => rw = "player1"
           /\ (p1 \in RPS /\ p2 = "bomb") => rw = "player2"
           /\ (p1 = "bomb" /\ p2 = "bomb") => rw = "draw"

\* player 2's bomb beat the bot's paper
C7_Witness ==
    /\ pc = "judged"
    /\ judge_decision.validation.status = "VALID"
    /\ judge_decision.game_logic.player1_move = "paper"
    /\ judge_decision.game_logic.player2_move = "bomb"
    /\ judge_decision.game_logic.round_winner = "player2"

\* C8: in a VALID record with both moves among rock, paper and scissors,
\* (rock, scissors), (scissors, paper) and (paper, rock) win for player 1
\* and the reversed pairs win for player 2.
C8_CyclicRelation ==
    (pc = "judged" /\ judge_decision.validation.status = "VALID") =>
       LET p1 == judge_decision.game_logic.player1_move
           p2 == judge_decision.game_logic.player2_move
           rw == judge_decision.game_logic.round_winner
           wins == { <<"rock", "scissors">>, <<"scissors", "paper">>,
                     <<"paper", "rock">> }
       IN  /\ <<p1, p2>> \in wins => rw = "player1"
           /\ <<p2, p1>> \in wins => rw = "player2"

\* the bot's scissors lost to player 2's rock
C8_Witness ==
    /\ pc = "judged"
    /\ judge_decision.validation.status = "VALID"
    /\ judge_decision.game_logic.player1_move = "scissors"
    /\ judge_decision.game_logic.player2_move = "rock"
    /\ judge_decision.game_logic.round_winner = "player2"

\* the lower-case input holds a keyword of category mv
HasSynonym(mv, raw) == AnyKeyIn(move_map[mv], Lower(raw))

HasRefusal(raw) == AnyKeyIn(refuses, Lower(raw))

\* C9 as stated: an input with a bomb synonym and no refusal phrase
\* resolves to bomb, whatever other move synonyms it holds.
C9_BombSynonymResolvesToBomb ==
    (/\ pc = "judged"
     /\ HasSynonym("bomb", game_context.player2_move)
     /\ ~HasRefusal(game_context.player2_move))
    => judge_decision.intent_understanding.move_understood = "bomb"

\* C9 amended: an input with a bomb synonym, no refusal phrase and no
\* synonym of rock, paper or scissors resolves to bomb.
C9_BombSynonymAloneResolvesToBomb ==
    (/\ pc = "judged"
     /\ HasSynonym("bomb", game_context.player2_move)
     /\ ~HasRefusal(game_context.player2_move)
     /\ \A mv \in RPS : ~HasSynonym(mv, game_context.player2_move))
    => judge_decision.intent_understanding.move_understood = "bomb"

\* an upper-case bomb synonym next to a word that is no keyword
C9_Witness ==
    /\ pc = "judged"
    /\ game_context.player2_move = <<"h","i"," ","N","U","K","E">>
    /\ judge_decision.intent_understanding.move_understood = "bomb"

\* C10: an input with a refusal phrase resolves to None whatever move
\* synonyms it holds; the status is UNCLEAR, the move is not accepted and
\* the state_update carries the flags of the context.
C10_RefusalOverridesIntent ==
    (pc = "judged" /\ HasRefusal(game_context.player2_move)) =>
       /\ judge_decision.intent_understanding.move_understood = None
       /\ judge_decision.validation.status = "UNCLEAR"
       /\ ~judge_decision.final_result.move_accepted
       /\ judge_decision.state_update.player1_bomb_used
            = game_context.player1_bomb_used
       /\ judge_decision.state_update.player2_bomb_used
            = game_context.player2_bomb_used

\* a refusal next to a bomb synonym, the bomb being unused
C10_Witness ==
    /\ pc = "judged"
    /\ game_context.player2_move = <<"p","a","s","s"," ","b","o","m","b">>
    /\ ~game_context.player2_bomb_used
    /\ judge_decision.validation.status = "UNCLEAR"
    /\ ~judge_decision.state_update.player2_bomb_used

\* a step in which play_round is called
RoundStep == pc = "prompt" /\ pc' \in {"played", "crashed"}

\* C11: when the backend call raises, play_round returns (the run does not
\* end in an error); the record is the one mock_judge_response builds for
\* the context of the round, it is appended to the history, and its flags
\* are committed when and only when it is accepted, as in MOCK mode.
C11_FallbackMasksFailure ==
    /\ [](backend.call = "raised" => pc # "crashed")
    /\ [][ (RoundStep /\ backend'.call = "raised") =>
             LET ctx == GameContext(game_state, player_input', ai_move')
                 jd  == mock_judge_response(ctx)
             IN  /\ pc' = "played"
                 /\ game_context' = ctx
                 /\ judge_decision' = jd
                 /\ Rounds' = Append(Rounds, jd)
                 /\ game_state'.player1_bomb_used =
                      IF jd.final_result.move_accepted
                      THEN jd.state_update.player1_bomb_used
                      ELSE game_state.player1_bomb_used
                 /\ game_state'.player2_bomb_used =
                      IF jd.final_result.move_accepted
                      THEN jd.state_update.player2_bomb_used
                      ELSE game_state.player2_bomb_used
                 /\ game_state'.round_number = game_state.round_number ]_vars

\* the call raised and the fallback accepted a bomb of player 2
C11_Witness ==
    /\ pc = "played"
    /\ backend.call = "raised"
    /\ judge_decision.validation.status = "VALID"
    /\ judge_decision.intent_understanding.move_understood = "bomb"
    /\ game_state.player2_bomb_used
    /\ Rounds[Len(Rounds)] = judge_decision

\* the winner of record i of the history
WinnerOf(i) == Rounds[i].game_logic.round_winner

\* C12: at the tally the history holds the 3 records of the match; a
\* round_winner of player2 counts as a user win, player1 as a bot win, any
\* other value (draw or None) as a draw, and the three counts add up to 3.
C12_TallyCounts ==
    pc = "tallied" =>
       /\ Len(Rounds) = MatchLength
       /\ match_result.user_wins =
            Cardinality({i \in 1..MatchLength : WinnerOf(i) = "player2"})
       /\ match_result.bot_wins =
            Cardinality({i \in 1..MatchLength : WinnerOf(i) = "player1"})
       /\ match_result.draws =
            Cardinality({i \in 1..MatchLength :
                           WinnerOf(i) \in {"draw", None}})
       /\ match_result.user_wins + match_result.bot_wins
            + match_result.draws = 3

\* two user wins and one round without a winner
C12_Witness ==
    /\ pc = "tallied"
    /\ \E i \in DOMAIN Rounds : WinnerOf(i) = None
    /\ match_result.user_wins = 2
    /\ match_result.draws = 1

\* C13: the verdict is "User wins" exactly when the user has more round
\* wins than the bot, "Bot wins" exactly when the bot has more, and "Draw"
\* exactly when the counts are equal.
C13_Verdict ==
    pc = "tallied" =>
       /\ (match_result.final = "User wins")
            = (match_result.user_wins > match_result.bot_wins)
       /\ (match_result.final = "Bot wins")
            = (match_result.bot_wins > match_result.user_wins)
       /\ (match_result.final = "Draw")
            = (match_result.user_wins = match_result.bot_wins)

\* one win each and a draw
C13_Witness ==
    /\ pc = "tallied"
    /\ match_result.user_wins = 1
    /\ match_result.bot_wins = 1
    /\ match_result.final = "Draw"

\* C14: in a record of mock_judge_response whose status is INVALID or
\* UNCLEAR, player1_move, player2_move and round_winner of game_logic are
\* None.
C14_GameLogicOnlyWhenValid ==
    (pc = "judged" /\ judge_decision.validation.status # "VALID") =>
       /\ judge_decision.game_logic.player1_move = None
       /\ judge_decision.game_logic.player2_move = None
       /\ judge_decision.game_logic.round_winner = None

\* C15: when the backend returns a text json.loads rejects, the run ends
\* in an error: no record is returned, the game state (flags, history) is
\* as before, and the internal resolver is not used.
C15_ParseErrorIsFatal ==
    [][ (/\ RoundStep
         /\ backend'.call = "returned"
         /\ ~JsonLoads(backend'.text))
        => /\ pc' = "crashed"
           /\ game_state' = game_state
           /\ judge_decision' = judge_decision ]_vars

\* the text has white space before the fence, which the fence test does
\* not skip; two rounds were played and player 2's bomb is spent
C15_Witness ==
    /\ pc = "crashed"
    /\ backend = Returned(<<"WS", "FENCE", "LANG", "OBJ", "FENCE">>)
    /\ Len(Rounds) = 2
    /\ game_state.player2_bomb_used

\* C16: in a record of mock_judge_response, move_accepted is true iff the
\* status is VALID, and action is PLAYED for VALID, REJECTED for INVALID and
\* UNCLEAR_MOVE for UNCLEAR.
C16_FinalResultMapping ==
    pc = "judged" =>
       LET st == judge_decision.validation.status
           fr == judge_decision.final_result
       IN  /\ fr.move_accepted = (st = "VALID")
           /\ st = "VALID" => fr.action = "PLAYED"
           /\ st = "INVALID" => fr.action = "REJECTED"
           /\ st = "UNCLEAR" => fr.action = "UNCLEAR_MOVE"

\* a rejected bomb
C16_Witness ==
    /\ pc = "judged"
    /\ judge_decision.validation.status = "INVALID"
    /\ judge_decision.final_result.action = "REJECTED"
    /\ ~judge_decision.final_result.move_accepted

\* C17: in a VALID record with both moves among the four categories, the
\* round_winner is draw iff the moves are equal, and the explanation is
\* never the one of the fallback branch.
C17_DrawIffEqual ==
    (/\ pc = "judged"
     /\ judge_decision.validation.status = "VALID"
     /\ judge_decision.game_logic.player1_move \in Moves
     /\ judge_decision.game_logic.player2_move \in Moves)
    => /\ (judge_decision.game_logic.round_winner = "draw")
            = (judge_decision.game_logic.player1_move
                 = judge_decision.game_logic.player2_move)
       /\ judge_decision.game_logic.round_explanation
            # "No clear winner (unexpected input)."

\* paper against paper
C17_Witness ==
    /\ pc = "judged"
    /\ judge_decision.validation.status = "VALID"
    /\ judge_decision.game_logic.player1_move = "paper"
    /\ judge_decision.game_logic.player2_move = "paper"
    /\ judge_decision.game_logic.round_winner = "draw"

\* C18: every play_round that returns appends its record, and only it, to
\* the history, whatever the status, and the loop then adds exactly 1 to
\* round_number.
C18_EveryRoundCounts ==
    /\ [](pc = "played" =>
            /\ Rounds # <<>>
            /\ Rounds[Len(Rounds)] = judge_decision
            /\ game_state.round_number = Len(Rounds))
    /\ [][ /\ (pc = "prompt" /\ pc' = "played") =>
                /\ Rounds' = Append(Rounds, judge_decision')
                /\ game_state'.round_number = game_state.round_number
           /\ pc = "played" =>
                /\ game_state'.round_number = game_state.round_number + 1
                /\ Rounds' = Rounds ]_vars

\* a match whose second round was rejected and whose third was unclear
C18_Witness ==
    /\ pc = "played"
    /\ Len(Rounds) = MatchLength
    /\ Rounds[2].validation.status = "INVALID"
    /\ Rounds[3].validation.status = "UNCLEAR"

\* C19: at the prompt round_number is the length of the history plus 1 and
\* lies in 1..3; the history never holds more than 3 records and holds 3
\* only between the third play_round and the reset; an empty line leaves
\* the game state as it was.
C19_LoopInvariant ==
    /\ [](pc = "prompt" =>
            /\ game_state.round_number = Len(Rounds) + 1
            /\ game_state.round_number \in 1..MatchLength)
    /\ [](Len(Rounds) <= MatchLength)
    /\ [](Len(Rounds) = MatchLength => pc \in {"played", "tallied"})
    /\ [][ (pc = "prompt" /\ pc' = "prompt") => game_state' = game_state ]_vars

\* an empty line was typed after two rounds
C19_Witness ==
    /\ pc = "prompt"
    /\ player_input = <<>>
    /\ Len(Rounds) = 2
    /\ game_state.round_number = 3

\* C20: in MOCK mode player2_bomb_used is true iff the history of the
\* match holds a record with status VALID and player 2's resolved move bomb.
C20_FlagMatchesHistory ==
    game_state.player2_bomb_used
      = (\E i \in DOMAIN Rounds : ValidBomb2(Rounds[i]))

\* bomb against bomb: a draw that used up player 2's bomb
C20_Witness ==
    /\ pc = "prompt"
    /\ game_state.player2_bomb_used
    /\ \E i \in DOMAIN Rounds :
          /\ ValidBomb2(Rounds[i])
          /\ Rounds[i].game_logic.player1_move = "bomb"
          /\ Rounds[i].game_logic.round_winner = "draw"
====
